---- MODULE Spec2Model ----
(***************************************************************************)
(* Model of browser-mcp: the PlaywrightClient session life cycle           *)
(* (app/clients/playwright_client.py), the event buffers its listeners     *)
(* fill, the buffer queries, and the MCP tools of app/main.py that drive   *)
(* them.                                                                   *)
(*                                                                         *)
(* The browser engine is the environment: every awaited engine call either *)
(* succeeds or raises.  A coroutine runs atomically from one await to the  *)
(* next, so there is one action per await point: the action is the         *)
(* completion of the awaited call together with the code that runs until   *)
(* the next await is issued.                                               *)
(***************************************************************************)
EXTENDS Integers, Sequences, FiniteSets, TLC

(* ---------------------------------------------------------------------- *)
(* Bounds                                                                  *)
(* ---------------------------------------------------------------------- *)
MaxRes == 8         \* engine-side objects open at a time (4 per full session)
MaxFaults == 1      \* awaited engine calls of start() and stop() that raise
MaxBuf == 2         \* entries held by the two event buffers together
MaxTime == 2        \* last instant of the wall clock
MaxLen == 3         \* entries of a buffer a query is applied to on its own
MaxNodes == 4       \* element nodes of a document
MaxDepth == 2       \* largest max_depth a caller asks for
MaxChildren == 2    \* largest max_children a caller asks for
MaxOver == 2        \* characters by which a text exceeds the length kept whole
MaxPad == 1         \* whitespace characters around a text
MaxKey == 3         \* characters of a key given to press_key

(* ---------------------------------------------------------------------- *)
(* Values                                                                  *)
(* ---------------------------------------------------------------------- *)
None == 0                       \* Python None for handles and instants
NoneStr == "<None>"             \* Python None for an optional str
Lifespan == "lifespan"          \* the app_lifespan coroutine
Callers == {"c1"}               \* coroutines serving tool requests
\* the coroutines of two requests the server handles at the same time, each
\* ending with the answer to its request
Concurrent == {"c2", "c3"}
Tasks == {Lifespan} \cup Callers \cup Concurrent

ConsoleTypes == {"log", "error"}
ResourceTypes == {"xhr", "image"}
Times == 1..MaxTime

VARIABLES
    _playwright,        \* PlaywrightClient._playwright (id or None)
    _browser,           \* PlaywrightClient._browser
    _context,           \* PlaywrightClient._context
    _page,              \* PlaywrightClient._page
    _console_logs,      \* PlaywrightClient._console_logs
    _network_requests,  \* PlaywrightClient._network_requests
    res,                \* engine side: the objects that are open
    now,                \* datetime.now(timezone.utc)
    pc,                 \* await point each coroutine is suspended at
    arg,                \* object the pending awaited call was issued on
    faults,             \* engine calls of start() and stop() that may still raise
    attempted,          \* close calls issued by the coroutine's latest stop()
    swallowed,          \* did the except clause of that stop() run?
    dom,                \* the document the page shows
    returned,           \* the list the latest query gave to its caller
    step                \* the step taken last and the response it gave

vars == <<_playwright, _browser, _context, _page, _console_logs,
          _network_requests, res, now, pc, arg, faults, attempted, swallowed,
          dom, returned, step>>

handles == <<_playwright, _browser, _context, _page>>
buffers == <<_console_logs, _network_requests>>
\* what the session life cycle never touches
outside == <<now, dom, returned>>

(* ---------------------------------------------------------------------- *)
(* Engine side objects                                                     *)
(* ---------------------------------------------------------------------- *)
\* res[i] is the object with identity i; an identity is free when no such
\* object is open, and is given out again once the client no longer holds it
Ids == 1..MaxRes
Free == [kind |-> "free", parent |-> None]
Live(i) == i \in Ids /\ res[i].kind # "free"
LiveOf(k) == {i \in Ids : res[i].kind = k}

ParentOf(i) == IF i \in Ids THEN res[i].parent ELSE None
\* an object and everything it was created from
Chain(i) == {i, ParentOf(i), ParentOf(ParentOf(i)),
             ParentOf(ParentOf(ParentOf(i)))} \ {None}
RootOf(i) == CHOOSE r \in Chain(i) : ParentOf(r) = None

\* closing an object closes everything created from it
Released(i) == [j \in Ids |-> IF i \in Chain(j) THEN Free ELSE res[j]]

Referenced == {_playwright, _browser, _context, _page} \cup {arg[t] : t \in Tasks}
FreeIds == {i \in Ids : res[i].kind = "free" /\ i \notin Referenced}
CanCreate == FreeIds # {}
NewId == CHOOSE i \in FreeIds : \A j \in FreeIds : i <= j
Created(k, parent) == [res EXCEPT ![NewId] = [kind |-> k, parent |-> parent]]

\* A selector: "#name" (kind "id"), ".name" (kind "class"), or the segments
\* `tag.class:nth-child(k)` of a path joined by " > " (kind "path")
Selector(kind, name, path) == [kind |-> kind, name |-> name, path |-> path]
NoSelector == Selector("", "", <<>>)

\* what _summarize_element gives: `return None`, an exception, or a summary
Absent == [kind |-> "absent"]
Raised == [kind |-> "raised"]

\* the step taken last: its name, the event or the arguments it was taken
\* with, and the response a tool gave at it: op is the tool that answered,
\* status is "ok" (a value was returned) or "error" (the tool raised), type
\* names the kind of value returned, raised the exception of the engine
\* call the tool made ("" when it returned); modifiers and pressed are what
\* press_key handed to keyboard.press
NoStep(a) == [act |-> a, page |-> None, kind |-> "", timestamp |-> None,
              limit |-> 0, offset |-> 0, time_from |-> None, time_to |-> None,
              resource_type |-> NoneStr,
              visible_only |-> FALSE, max_depth |-> 0, max_children |-> 0,
              op |-> "", status |-> "none", type |-> "none", bool |-> FALSE,
              list |-> <<>>, snapshot |-> Absent,
              selector |-> NoSelector, text |-> <<>>, key |-> <<>>,
              modifiers |-> <<>>, pressed |-> <<>>, raised |-> ""]
Response(a, op, status, type) ==
    [NoStep(a) EXCEPT !.op = op, !.status = status, !.type = type]

\* The list object a query gave to its caller: the query that built it,
\* its entries, and whether it is the very list the client appends to.
NoResult == [op |-> "", list |-> <<>>, shares |-> FALSE]

\* Result handing out the buffer itself when the page is all of it
Result_NoCopy(op, buffer, list) ==
    [op |-> op, list |-> list, shares |-> (list = buffer)]

\* sorted() builds a new list and the slice of it another one
Result(op, buffer, list) == [op |-> op, list |-> list, shares |-> FALSE]

\* the list the caller holds once the buffer `op` reads has become b:
\* list.append changes the one list object it is called on
Held(r, op, b) == IF r.shares /\ r.op = op THEN [r EXCEPT !.list = b] ELSE r

\* A document is the sequence of its element nodes in document order:
\* node 1 is `body`, and every other node comes behind its parent.
\* visible is what is_visible() answers, inner_text and text_content are
\* what inner_text() and textContent give (sequences of characters), and
\* fault says which calls
\* on the node raise: "none", "inner_text" (inner_text() alone) or "stale"
\* (the node has left the document, so every call on its handle raises).
Body == 1
\* tag, id and class are the node's tagName, id and className, the last as
\* the sequence of its class names.
BodyOnly == <<[parent |-> None, visible |-> TRUE, fault |-> "none",
              inner_text |-> <<>>, text_content |-> <<>>,
              tag |-> "body", id |-> "", class |-> <<>>]>>
TagOf(i) == IF i = Body THEN "body" ELSE "div"

(* ---------------------------------------------------------------------- *)
(* PlaywrightClient.__init__ and the entry of app_lifespan                 *)
(* ---------------------------------------------------------------------- *)
Constructed ==
    /\ _playwright = None /\ _browser = None /\ _context = None /\ _page = None
    /\ _console_logs = <<>> /\ _network_requests = <<>>
    /\ res = [i \in Ids |-> Free]
    /\ now = 1
    /\ pc = [t \in Tasks |-> IF t = Lifespan THEN "await_playwright_start" ELSE "idle"]
    /\ arg = [t \in Tasks |-> None]
    /\ attempted = [t \in Tasks |-> <<>>]
    /\ swallowed = [t \in Tasks |-> FALSE]
    /\ dom = BodyOnly
    /\ returned = NoResult
    /\ step = NoStep("init")

Init == Constructed /\ faults = MaxFaults

(* ---------------------------------------------------------------------- *)
(* PlaywrightClient.start: one action per awaited engine call              *)
(* ---------------------------------------------------------------------- *)
\* where the coroutine of a request is once its tool answered: ready for
\* the next request, or ended
Answered(t) == IF t \in Callers THEN "idle" ELSE "done"
\* and once its tool raised
Failed(t) == IF t \in Callers THEN "idle" ELSE "raised"

\* start() returned: app_lifespan yields, restart_browser answers
StartReturn(t, a) ==
    /\ pc' = [pc EXCEPT ![t] = IF t = Lifespan THEN "yield" ELSE Answered(t)]
    /\ arg' = [arg EXCEPT ![t] = None]
    /\ UNCHANGED <<attempted, swallowed>>
    /\ step' = IF t = Lifespan THEN NoStep(a)
               ELSE Response(a, "restart_browser", "ok", "str")

\* StartRaise dropping the engine handle when a later call of start() raised
StartRaise_DropsEngine(t, a, forced) ==
    /\ forced \/ faults > 0
    /\ faults' = IF forced THEN faults ELSE faults - 1
    /\ pc' = [pc EXCEPT ![t] = IF t = Lifespan THEN "done" ELSE Failed(t)]
    /\ arg' = [arg EXCEPT ![t] = None]
    /\ UNCHANGED <<attempted, swallowed>>
    /\ step' = IF t = Lifespan THEN NoStep(a)
               ELSE Response(a, "restart_browser", "error", "none")
    /\ _playwright' = None
    /\ UNCHANGED <<_browser, _context, _page, buffers, res>>

\* an awaited call of start() raised (it must when the engine cannot create
\* the object): nothing catches it in start(), restart_browser or
\* app_lifespan
StartRaise(t, a, forced) ==
    /\ forced \/ faults > 0
    /\ faults' = IF forced THEN faults ELSE faults - 1
    /\ pc' = [pc EXCEPT ![t] = IF t = Lifespan THEN "done" ELSE Failed(t)]
    /\ arg' = [arg EXCEPT ![t] = None]
    /\ UNCHANGED <<attempted, swallowed>>
    /\ step' = IF t = Lifespan THEN NoStep(a)
               ELSE Response(a, "restart_browser", "error", "none")
    /\ UNCHANGED <<handles, buffers, res>>

PlaywrightStarted(t) ==
    /\ pc[t] = "await_playwright_start"
    /\ \/ /\ CanCreate
          /\ res' = Created("playwright", None)
          /\ _playwright' = NewId
          /\ pc' = [pc EXCEPT ![t] = "await_launch"]
          /\ arg' = [arg EXCEPT ![t] = NewId]
          /\ step' = NoStep("playwright_start")
          /\ UNCHANGED <<faults, _browser, _context, _page, buffers, attempted, swallowed>>
       \/ StartRaise(t, "playwright_start_raise", ~CanCreate)
    /\ UNCHANGED outside

Launched(t) ==
    /\ pc[t] = "await_launch"
    /\ \/ /\ CanCreate /\ Live(arg[t])
          /\ res' = Created("browser", arg[t])
          /\ _browser' = NewId
          /\ pc' = [pc EXCEPT ![t] = "await_new_context"]
          /\ arg' = [arg EXCEPT ![t] = NewId]
          /\ step' = NoStep("launch")
          /\ UNCHANGED <<faults, _playwright, _context, _page, buffers, attempted, swallowed>>
       \/ StartRaise(t, "launch_raise", ~(CanCreate /\ Live(arg[t])))
    /\ UNCHANGED outside

ContextCreated(t) ==
    /\ pc[t] = "await_new_context"
    /\ \/ /\ CanCreate /\ Live(arg[t])
          /\ res' = Created("context", arg[t])
          /\ _context' = NewId
          /\ pc' = [pc EXCEPT ![t] = "await_new_page"]
          /\ arg' = [arg EXCEPT ![t] = NewId]
          /\ step' = NoStep("new_context")
          /\ UNCHANGED <<faults, _playwright, _browser, _page, buffers, attempted, swallowed>>
       \/ StartRaise(t, "new_context_raise", ~(CanCreate /\ Live(arg[t])))
    /\ UNCHANGED outside

\* new_page() returned: the rest of start() runs without another await
PageCreated(t) ==
    /\ pc[t] = "await_new_page"
    /\ \/ /\ CanCreate /\ Live(arg[t])
          /\ res' = Created("page", arg[t])
          /\ _page' = NewId
          /\ _console_logs' = <<>>
          /\ _network_requests' = <<>>
          /\ StartReturn(t, "new_page")
          /\ UNCHANGED <<faults, _playwright, _browser, _context>>
       \/ StartRaise(t, "new_page_raise", ~(CanCreate /\ Live(arg[t])))
    /\ UNCHANGED outside

(* ---------------------------------------------------------------------- *)
(* PlaywrightClient.stop                                                   *)
(* ---------------------------------------------------------------------- *)
StopKinds == <<"page", "context", "browser", "playwright">>
StopPc == <<"await_page_close", "await_context_close",
            "await_browser_close", "await_playwright_stop">>

\* FirstSet with the browser closed ahead of its browsing context
FirstSet_BrowserFirst(k, p, c, b, w) ==
    IF k <= 1 /\ p # None THEN 1
    ELSE IF k <= 3 /\ b # None THEN 3
    ELSE IF k <= 2 /\ c # None THEN 2
    ELSE IF k <= 4 /\ w # None THEN 4
    ELSE 5

\* the first `if self._x:` from position k on that finds a handle set
\* (5 when none does); p, c, b, w are the four handles
FirstSet(k, p, c, b, w) ==
    IF k <= 1 /\ p # None THEN 1
    ELSE IF k <= 2 /\ c # None THEN 2
    ELSE IF k <= 3 /\ b # None THEN 3
    ELSE IF k <= 4 /\ w # None THEN 4
    ELSE 5

\* stop() returned to app_lifespan (which ends) or to restart_browser
\* (which goes on to await start())
StopReturn(t) ==
    /\ pc' = [pc EXCEPT ![t] = IF t = Lifespan THEN "done"
                               ELSE "await_playwright_start"]
    /\ arg' = [arg EXCEPT ![t] = None]

\* the code of stop() from the k-th `if` up to its next await or its end,
\* run with the handles p, c, b, w; att is the close calls issued so far
StopResume(t, k, p, c, b, w, att) ==
    LET n == FirstSet(k, p, c, b, w)
        h == <<p, c, b, w>>
    IN  /\ _page' = p /\ _context' = c /\ _browser' = b /\ _playwright' = w
        /\ swallowed' = [swallowed EXCEPT ![t] = FALSE]
        /\ IF n <= 4
           THEN /\ pc' = [pc EXCEPT ![t] = StopPc[n]]
                /\ arg' = [arg EXCEPT ![t] = h[n]]
                /\ attempted' = [attempted EXCEPT ![t] = Append(att, StopKinds[n])]
                /\ UNCHANGED buffers
           ELSE /\ _console_logs' = <<>>
                /\ _network_requests' = <<>>
                /\ attempted' = [attempted EXCEPT ![t] = att]
                /\ StopReturn(t)

\* `except Exception as e: print(...)`: stop() ends where the call raised
StopExcept(t) ==
    /\ faults > 0
    /\ faults' = faults - 1
    /\ swallowed' = [swallowed EXCEPT ![t] = TRUE]
    /\ StopReturn(t)
    /\ UNCHANGED <<handles, buffers, attempted>>

PageClosed(t) ==
    /\ pc[t] = "await_page_close"
    /\ \/ /\ res' = Released(arg[t])
          /\ StopResume(t, 2, None, _context, _browser, _playwright, attempted[t])
          /\ step' = NoStep("page_close")
          /\ UNCHANGED faults
       \/ /\ StopExcept(t)
          /\ UNCHANGED res
          /\ step' = NoStep("page_close_raise")
    /\ UNCHANGED outside

ContextClosed(t) ==
    /\ pc[t] = "await_context_close"
    /\ \/ /\ res' = Released(arg[t])
          /\ StopResume(t, 3, _page, None, _browser, _playwright, attempted[t])
          /\ step' = NoStep("context_close")
          /\ UNCHANGED faults
       \/ /\ StopExcept(t)
          /\ UNCHANGED res
          /\ step' = NoStep("context_close_raise")
    /\ UNCHANGED outside

BrowserClosed(t) ==
    /\ pc[t] = "await_browser_close"
    /\ \/ /\ res' = Released(arg[t])
          /\ StopResume(t, 4, _page, _context, None, _playwright, attempted[t])
          /\ step' = NoStep("browser_close")
          /\ UNCHANGED faults
       \/ /\ StopExcept(t)
          /\ UNCHANGED res
          /\ step' = NoStep("browser_close_raise")
    /\ UNCHANGED outside

PlaywrightStopped(t) ==
    /\ pc[t] = "await_playwright_stop"
    /\ \/ /\ res' = Released(arg[t])
          /\ StopResume(t, 5, _page, _context, _browser, None, attempted[t])
          /\ step' = NoStep("playwright_stop")
          /\ UNCHANGED faults
       \/ /\ StopExcept(t)
          /\ UNCHANGED res
          /\ step' = NoStep("playwright_stop_raise")
    /\ UNCHANGED outside

(* ---------------------------------------------------------------------- *)
(* app/main.py: app_lifespan and restart_browser                           *)
(* ---------------------------------------------------------------------- *)
Serving == pc[Lifespan] = "yield"
AllIdle == \A c \in Callers : pc[c] = "idle"

\* callers issue one request at a time
MayInvoke(t) == t \in Callers /\ Serving /\ AllIdle

\* the server shuts down: the finally clause of app_lifespan awaits stop()
Shutdown ==
    /\ Serving /\ AllIdle
    /\ StopResume(Lifespan, 1, _page, _context, _browser, _playwright, <<>>)
    /\ step' = NoStep("shutdown")
    /\ UNCHANGED <<res, outside, faults>>

restart_browser(t) ==
    /\ MayInvoke(t)
    /\ StopResume(t, 1, _page, _context, _browser, _playwright, <<>>)
    /\ step' = NoStep("restart_browser")
    /\ UNCHANGED <<res, outside, faults>>

(* ---------------------------------------------------------------------- *)
(* Event listeners registered by start() and the wall clock                *)
(* ---------------------------------------------------------------------- *)
\* ConsoleListener putting the entry in front
ConsoleListener_Prepend(logs, msg) == <<msg>> \o logs

\* lambda msg: self._console_logs.append({...})
ConsoleListener(logs, msg) == Append(logs, msg)
\* lambda request: self._network_requests.append({...})
RequestListener(requests, request) == Append(requests, request)

\* every page start() created carries both listeners; a closed page is silent
Emitting == LiveOf("page")

Tick ==
    /\ now < MaxTime
    /\ now' = now + 1
    /\ step' = NoStep("tick")
    /\ UNCHANGED <<handles, buffers, res, pc, arg, faults, attempted, swallowed,
                   dom, returned>>

\* page p writes to the console: the listener runs between two coroutine steps
ConsoleEvent(p, type) ==
    /\ p \in Emitting
    /\ Len(_console_logs) + Len(_network_requests) < MaxBuf
    /\ _console_logs' = ConsoleListener(_console_logs,
           [type |-> type, timestamp |-> now, page |-> p])
    /\ step' = [NoStep("console") EXCEPT !.page = p, !.kind = type,
                                         !.timestamp = now]
    /\ returned' = Held(returned, "get_console_logs", _console_logs')
    /\ UNCHANGED <<handles, _network_requests, res, now, pc, arg, faults, attempted,
                   swallowed, dom>>

RequestEvent(p, type) ==
    /\ p \in Emitting
    /\ Len(_console_logs) + Len(_network_requests) < MaxBuf
    /\ _network_requests' = RequestListener(_network_requests,
           [resourceType |-> type, timestamp |-> now, page |-> p])
    /\ step' = [NoStep("request") EXCEPT !.page = p, !.kind = type,
                                         !.timestamp = now]
    /\ returned' = Held(returned, "get_network_requests", _network_requests')
    /\ UNCHANGED <<handles, _console_logs, res, now, pc, arg, faults, attempted,
                   swallowed, dom>>

(* ---------------------------------------------------------------------- *)
(* PlaywrightClient.get_console_logs / get_network_requests                *)
(* ---------------------------------------------------------------------- *)
\* `if time_from:` a datetime is truthy, so the test is `is not None`
TruthyTime(x) == x # None
\* `if resource_type:` None and the empty string are both falsy
TruthyStr(x) == x \notin {NoneStr, ""}

\* FilterFrom with a strict comparison
FilterFrom_Strict(s, time_from) ==
    IF TruthyTime(time_from)
    THEN SelectSeq(s, LAMBDA e : e.timestamp > time_from) ELSE s

FilterFrom(s, time_from) ==
    IF TruthyTime(time_from)
    THEN SelectSeq(s, LAMBDA e : e.timestamp >= time_from) ELSE s
FilterTo(s, time_to) ==
    IF TruthyTime(time_to)
    THEN SelectSeq(s, LAMBDA e : e.timestamp <= time_to) ELSE s
FilterType(s, resource_type) ==
    IF TruthyStr(resource_type)
    THEN SelectSeq(s, LAMBDA e : e.resourceType = resource_type) ELSE s

\* InsertStable putting e in front of the entries of its own timestamp
InsertStable_TiesReversed(s, e) ==
    LET k == Cardinality({i \in 1..Len(s) : s[i].timestamp > e.timestamp})
    IN  SubSeq(s, 1, k) \o <<e>> \o SubSeq(s, k + 1, Len(s))

\* e put into a newest-first sequence behind every entry that is not older
InsertStable(s, e) ==
    LET k == Cardinality({i \in 1..Len(s) : s[i].timestamp >= e.timestamp})
    IN  SubSeq(s, 1, k) \o <<e>> \o SubSeq(s, k + 1, Len(s))

\* sorted(s, key=lambda x: x["timestamp"], reverse=True): a stable sort
RECURSIVE SortedNewestFirst(_)
SortedNewestFirst(s) ==
    IF s = <<>> THEN <<>>
    ELSE InsertStable(SortedNewestFirst(SubSeq(s, 1, Len(s) - 1)), s[Len(s)])

\* one bound of a Python slice over a sequence of length n
SliceBound(i, n) == IF i < 0 THEN (IF i + n < 0 THEN 0 ELSE i + n)
                    ELSE (IF i > n THEN n ELSE i)
\* s[lo:hi]
PySlice(s, lo, hi) ==
    SubSeq(s, SliceBound(lo, Len(s)) + 1, SliceBound(hi, Len(s)))

get_console_logs(logs, limit, offset, time_from, time_to) ==
    LET filtered_logs == FilterTo(FilterFrom(logs, time_from), time_to)
        sorted_logs == SortedNewestFirst(filtered_logs)
    IN  PySlice(sorted_logs, offset, offset + limit)

get_network_requests(requests, limit, offset, time_from, time_to, resource_type) ==
    LET filtered_requests ==
            FilterType(FilterTo(FilterFrom(requests, time_from), time_to),
                       resource_type)
        sorted_requests == SortedNewestFirst(filtered_requests)
    IN  PySlice(sorted_requests, offset, offset + limit)

(* ---------------------------------------------------------------------- *)
(* PlaywrightClient._get_css_selector and the engine's selector lookup     *)
(* ---------------------------------------------------------------------- *)
\* the element children of a node in document order
ElementsUnder(d, element) ==
    SelectSeq([i \in 1..Len(d) |-> i], LAMBDA i : d[i].parent = element)
\* Array.from(el.parentNode.children).indexOf(el) + 1; `body` follows
\* `head` under `html`
SiblingIndex(d, element) ==
    IF element = Body THEN 2
    ELSE LET siblings == ElementsUnder(d, d[element].parent)
         IN  CHOOSE k \in 1..Len(siblings) : siblings[k] = element
Segment(d, element) ==
    [tag |-> d[element].tag, class |-> d[element].class,
     nth |-> SiblingIndex(d, element)]
HtmlSegment == [tag |-> "html", class |-> <<>>, nth |-> 1]
\* the loop `while (el ...) { path.unshift(selector); el = el.parentElement }`
RECURSIVE PathTo(_, _)
PathTo(d, element) ==
    IF element = Body THEN <<HtmlSegment, Segment(d, Body)>>
    ELSE Append(PathTo(d, d[element].parent), Segment(d, element))

_get_css_selector(d, element) ==
    IF d[element].id # "" THEN Selector("id", d[element].id, <<>>)
    ELSE Selector("path", "", PathTo(d, element))

\* the nodes of the document in document order
RECURSIVE Flat(_, _)
RECURSIVE Preorder(_, _)
Flat(d, elements) ==
    IF elements = <<>> THEN <<>>
    ELSE Preorder(d, Head(elements)) \o Flat(d, Tail(elements))
Preorder(d, element) == <<element>> \o Flat(d, ElementsUnder(d, element))

\* does the compound selector `tag.class:nth-child(k)` match the segment of
\* a node?
SegmentMatches(want, have) ==
    /\ want.tag = have.tag
    /\ want.nth = have.nth
    /\ \A i \in 1..Len(want.class) :
           \E j \in 1..Len(have.class) : have.class[j] = want.class[i]
\* does the selector match the node?  A path matches from its last segment
\* upwards, each ` > ` stepping to the parent
Matches(d, selector, element) ==
    CASE selector.kind = "id" -> d[element].id = selector.name
      [] selector.kind = "class" ->
             \E j \in 1..Len(d[element].class) : d[element].class[j] = selector.name
      [] selector.kind = "path" ->
             LET have == PathTo(d, element)
                 want == selector.path
             IN  /\ Len(want) <= Len(have)
                 /\ \A i \in 1..Len(want) :
                        SegmentMatches(want[i], have[Len(have) - Len(want) + i])
      [] OTHER -> FALSE
\* page.query_selector_all(selector): the matching nodes in document order
page_query_selector_all(d, selector) ==
    SelectSeq(Preorder(d, Body), LAMBDA n : Matches(d, selector, n))
\* page.query_selector(selector): the first of them, or None
page_query_selector(d, selector) ==
    IF page_query_selector_all(d, selector) = <<>> THEN None
    ELSE page_query_selector_all(d, selector)[1]

(* ---------------------------------------------------------------------- *)
(* PlaywrightClient._summarize_element                                     *)
(* ---------------------------------------------------------------------- *)
Whitespace == {" ", "\t"}
TextLimit == 80                 \* `if len(text) > 80`
TextKept == 77                  \* `text[:77]`
Ellipsis == <<".", ".", ".">>   \* `+ "..."`

\* str.strip(): whitespace taken off both ends
RECURSIVE strip(_)
strip(text) ==
    IF text = <<>> THEN text
    ELSE IF Head(text) \in Whitespace THEN strip(Tail(text))
    ELSE IF text[Len(text)] \in Whitespace
         THEN strip(SubSeq(text, 1, Len(text) - 1))
    ELSE text

\* Shorten keeping the first 80 characters
Shorten_Keep80(text) ==
    IF Len(text) > TextLimit
    THEN SubSeq(text, 1, TextLimit) \o Ellipsis ELSE text

\* `if len(text) > 80: text = text[:77] + "..."`
Shorten(text) ==
    IF Len(text) > TextLimit
    THEN SubSeq(text, 1, TextKept) \o Ellipsis ELSE text

\* the text of a summary: inner_text(), or textContent when that call raises
TextOf(node) ==
    IF node.fault = "inner_text"
    THEN Shorten(strip(node.text_content))
    ELSE Shorten(strip(node.inner_text))

\* is_visible answering True for every node
is_visible_Always(d, element) == TRUE

\* element.is_visible()
is_visible(d, element) == d[element].visible

\* element.query_selector_all(":scope > *"): the element children in
\* document order
query_selector_all(d, element) ==
    LET kids == {i \in 1..Len(d) : d[i].parent = element}
    IN  SelectSeq([i \in 1..Len(d) |-> i], LAMBDA i : i \in kids)

\* every capability call on the handle of a stale node raises: the first
\* one is is_visible() when visible_only is set and evaluate() otherwise
RECURSIVE _summarize_element(_, _, _, _, _, _)
_summarize_element(d, element, depth, visible_only, max_depth, max_children) ==
    IF depth > max_depth THEN Absent
    ELSE IF d[element].fault = "stale" THEN Raised
    ELSE IF visible_only /\ ~is_visible(d, element) THEN Absent
    ELSE
        LET children == query_selector_all(d, element)
            visited == PySlice(children, 0, max_children)
            child_summary ==
                [i \in 1..Len(visited) |->
                    _summarize_element(d, visited[i], depth + 1, visible_only,
                                       max_depth, max_children)]
        IN  IF \E i \in 1..Len(visited) : child_summary[i].kind = "raised"
            THEN Raised
            ELSE [kind |-> "node", node |-> element, tag |-> d[element].tag,
                  text |-> TextOf(d[element]), id |-> d[element].id,
                  class |-> d[element].class,
                  selector |-> _get_css_selector(d, element),
                  children |-> SelectSeq(child_summary,
                                         LAMBDA c : c.kind = "node")]

(* ---------------------------------------------------------------------- *)
(* app/main.py: the tools                                                  *)
(* ---------------------------------------------------------------------- *)
\* a tool that has no await between its call and its answer changes
\* nothing but the response
Answer(t, r) ==
    /\ MayInvoke(t)
    /\ step' = r
    /\ UNCHANGED <<handles, buffers, res, now, pc, arg, faults, attempted, swallowed,
                   dom, returned>>

\* does an engine call on self._page raise?  `None.goto` is an
\* AttributeError, a call on a closed page fails, any other may fail
PageCallRaises(raised) == _page = None \/ ~Live(_page) \/ raised

\* the exception of an engine call on self._page that needs nothing of the
\* document
PageCall(raised) == IF PageCallRaises(raised) THEN "Error" ELSE ""

\* page.wait_for_selector(selector, state=state) on a document that stays as
\* it is: the first match once it is attached / visible, None once no match
\* is left / none is visible, and a TimeoutError when the state is not
\* reached.  state=None waits for "visible".
wait_for_selector(d, selector, state) ==
    LET element == page_query_selector(d, selector)
        shown == element # None /\ d[element].visible
        result(exc, e) == [raised |-> exc, element |-> e]
    IN  CASE state \in {"visible", NoneStr} ->
                 IF shown THEN result("", element) ELSE result("TimeoutError", None)
          [] state = "attached" ->
                 IF element # None THEN result("", element)
                 ELSE result("TimeoutError", None)
          [] state = "hidden" ->
                 IF shown THEN result("TimeoutError", None) ELSE result("", None)
          [] state = "detached" ->
                 IF element # None THEN result("TimeoutError", None)
                 ELSE result("", None)
\* page.click / page.fill wait for the first match to be visible
ActionOn(d, selector, raised) ==
    IF PageCallRaises(raised) THEN "Error"
    ELSE wait_for_selector(d, selector, "visible").raised

\* a tool that lets the exception of its call through
Passing(t, r, exc, value) ==
    Answer(t, IF exc # ""
              THEN [r EXCEPT !.status = "error", !.type = "none", !.raised = exc]
              ELSE value)
\* a tool that wraps the call in `try: ... return True / except Exception:
\* return False`
Boolean(t, r, exc) ==
    Answer(t, [r EXCEPT !.status = "ok", !.type = "bool", !.raised = exc,
                        !.bool = (exc = "")])
Call(op) == Response(op, op, "ok", "any")

\* a tool that awaits one call on self._page outside any try block
Propagating(t, op) ==
    \E raised \in BOOLEAN : Passing(t, Call(op), PageCall(raised), Call(op))

navigate_to_url(t) == Propagating(t, "navigate_to_url")
reload_page(t) == Propagating(t, "reload_page")
execute_js(t) == Propagating(t, "execute_js")

\* query_selector("body") on the page, then the summary of what it gave
explore_page_dom(t, visible_only, max_depth, max_children) ==
    \E raised \in BOOLEAN :
        LET answer(a, status, type, summary) ==
                [Response(a, "explore_page_dom", status, type)
                    EXCEPT !.visible_only = visible_only,
                           !.max_depth = max_depth,
                           !.max_children = max_children,
                           !.snapshot = summary]
            summary == _summarize_element(dom, Body, 0, visible_only, max_depth,
                                          max_children)
        IN  Answer(t, IF PageCallRaises(raised)
                      THEN answer("explore_page_dom", "error", "none", Absent)
                      ELSE IF summary.kind = "raised"
                      THEN answer("summarize_raise", "error", "none", Absent)
                      ELSE answer("explore_page_dom", "ok", "any", summary))

\* _summarize_element called on what query_selector gave: on None the first
\* capability call is an AttributeError unless `depth > max_depth` returns
\* before it
SummaryOf(d, element, visible_only, max_depth, max_children) ==
    IF element = None
    THEN (IF 0 > max_depth THEN Absent ELSE Raised)
    ELSE _summarize_element(d, element, 0, visible_only, max_depth, max_children)

explore_element_dom(t, selector, visible_only, max_depth, max_children) ==
    \E raised \in BOOLEAN :
        LET r == [Call("explore_element_dom")
                     EXCEPT !.selector = selector,
                            !.visible_only = visible_only,
                            !.max_depth = max_depth,
                            !.max_children = max_children]
            summary == SummaryOf(dom, page_query_selector(dom, selector),
                                 visible_only, max_depth, max_children)
        IN  Passing(t, r,
                    IF PageCallRaises(raised) THEN "Error"
                    ELSE IF summary.kind = "raised" THEN "AttributeError"
                    ELSE "",
                    [r EXCEPT !.snapshot = summary])

\* PlaywrightClient.find_elements: a summary, or None, for every match;
\* then the tool's `all_elements[offset:offset + limit] if all_elements
\* else []`
find_elements(t, selector, visible_only, max_depth, max_children, limit, offset) ==
    \E raised \in BOOLEAN :
        LET r == [Call("find_elements")
                     EXCEPT !.selector = selector,
                            !.visible_only = visible_only,
                            !.max_depth = max_depth,
                            !.max_children = max_children,
                            !.limit = limit, !.offset = offset, !.type = "list"]
            elements == page_query_selector_all(dom, selector)
            all_elements ==
                [i \in 1..Len(elements) |->
                    _summarize_element(dom, elements[i], 0, visible_only,
                                       max_depth, max_children)]
            paginated_elements ==
                IF all_elements # <<>>
                THEN PySlice(all_elements, offset, offset + limit) ELSE <<>>
        IN  Passing(t, r,
                    IF PageCallRaises(raised) THEN "Error"
                    ELSE IF \E i \in 1..Len(elements) :
                                all_elements[i].kind = "raised"
                    THEN "Error" ELSE "",
                    [r EXCEPT !.list = paginated_elements])

\* `element.text_content() if element else ""` behind wait_for_selector
get_element_text_content(t, selector) ==
    \E raised \in BOOLEAN :
        LET r == [Call("get_element_text_content")
                     EXCEPT !.selector = selector, !.type = "str"]
            found == wait_for_selector(dom, selector, NoneStr)
        IN  Passing(t, r,
                    IF PageCallRaises(raised) THEN "Error" ELSE found.raised,
                    [r EXCEPT !.text = IF found.element # None
                                       THEN dom[found.element].text_content
                                       ELSE <<>>])

click_on_element(t, selector) ==
    \E raised \in BOOLEAN :
        Boolean(t, [Call("click_on_element") EXCEPT !.selector = selector],
                ActionOn(dom, selector, raised))
fill_input(t, selector) ==
    \E raised \in BOOLEAN :
        Boolean(t, [Call("fill_input") EXCEPT !.selector = selector],
                ActionOn(dom, selector, raised))

\* str.split('+'): the pieces between the '+' characters
RECURSIVE split(_)
split(key) ==
    IF \A i \in 1..Len(key) : key[i] # "+" THEN <<key>>
    ELSE LET plus == CHOOSE i \in 1..Len(key) :
                         key[i] = "+" /\ \A j \in 1..(i - 1) : key[j] # "+"
         IN  <<SubSeq(key, 1, plus - 1)>> \o split(SubSeq(key, plus + 1, Len(key)))

\* PlaywrightClient.press_key behind the try/except of the tool
press_key(t, key) ==
    \E raised \in BOOLEAN :
        LET parts == split(key)
            r == [Call("press_key") EXCEPT !.key = key]
        IN  Boolean(t, IF \E i \in 1..Len(key) : key[i] = "+"
                       THEN [r EXCEPT !.modifiers = <<parts[1]>>,
                                      !.pressed = parts[2]]
                       ELSE [r EXCEPT !.pressed = key],
                    PageCall(raised))

WaitStates == {"visible", "hidden", "attached", "detached", NoneStr}

\* `element = await ...wait_for_element(...); return element is not None`
wait_for_element(t, selector, state) ==
    \E raised \in BOOLEAN :
        LET r == [Call("wait_for_element")
                     EXCEPT !.selector = selector, !.kind = state, !.type = "bool"]
            found == wait_for_selector(dom, selector, state)
        IN  Passing(t, r,
                    IF PageCallRaises(raised) THEN "Error" ELSE found.raised,
                    [r EXCEPT !.bool = (found.element # None)])

\* LeftInBuffer sorting the client's own list: list.sort() in place of sorted()
LeftInBuffer_SortedInPlace(buffer) == SortedNewestFirst(buffer)

\* what a query leaves in the buffer it read: the comprehensions, sorted()
\* and the slice all build new lists and nothing is assigned to the buffer
LeftInBuffer(buffer) == buffer

\* a query has no await of its own: it runs from call to answer in one step
tool_get_console_logs(t, limit, offset, time_from, time_to) ==
    LET paginated_logs ==
            get_console_logs(_console_logs, limit, offset, time_from, time_to)
    IN  /\ MayInvoke(t)
        /\ _console_logs' = LeftInBuffer(_console_logs)
        /\ returned' = Result("get_console_logs", _console_logs', paginated_logs)
        /\ step' = [Response("get_console_logs", "get_console_logs", "ok", "list")
                      EXCEPT !.limit = limit, !.offset = offset,
                             !.time_from = time_from, !.time_to = time_to,
                             !.list = paginated_logs]
        /\ UNCHANGED <<handles, _network_requests, res, now, pc, arg, faults,
                       attempted, swallowed, dom>>

tool_get_network_requests(t, limit, offset, time_from, time_to, resource_type) ==
    LET paginated_requests ==
            get_network_requests(_network_requests, limit, offset, time_from,
                                 time_to, resource_type)
    IN  /\ MayInvoke(t)
        /\ _network_requests' = LeftInBuffer(_network_requests)
        /\ returned' = Result("get_network_requests", _network_requests',
                              paginated_requests)
        /\ step' = [Response("get_network_requests", "get_network_requests",
                             "ok", "list")
                      EXCEPT !.limit = limit, !.offset = offset,
                             !.time_from = time_from, !.time_to = time_to,
                             !.resource_type = resource_type,
                             !.list = paginated_requests]
        /\ UNCHANGED <<handles, _console_logs, res, now, pc, arg, faults,
                       attempted, swallowed, dom>>

(* ---------------------------------------------------------------------- *)
(* Specifications                                                          *)
(* ---------------------------------------------------------------------- *)
DefaultLimit == 50
DefaultMaxDepth == 10
DefaultMaxChildren == 10
DefaultFindLimit == 10
\* the selector the summary of `body` carries
BodySelector == _get_css_selector(BodyOnly, Body)
OptTimes == {None} \cup Times
OptTypes == {NoneStr, ""} \cup ResourceTypes
CallLimits == {1, DefaultLimit}
CallOffsets == {0, 1}

\* the session life cycle: app_lifespan and restart_browser, one await at a
\* time
Lifecycle ==
    \/ \E t \in Tasks : PlaywrightStarted(t)
    \/ \E t \in Tasks : Launched(t)
    \/ \E t \in Tasks : ContextCreated(t)
    \/ \E t \in Tasks : PageCreated(t)
    \/ \E t \in Tasks : PageClosed(t)
    \/ \E t \in Tasks : ContextClosed(t)
    \/ \E t \in Tasks : BrowserClosed(t)
    \/ \E t \in Tasks : PlaywrightStopped(t)
    \/ Shutdown
    \/ \E t \in Callers : restart_browser(t)

\* Spec: the life cycle with page events arriving between any two steps.
\* The life cycle never reads a timestamp, so the clock stands still here;
\* it runs in SpecEvents
Next ==
    \/ Lifecycle
    \/ \E p \in Ids, type \in ConsoleTypes : ConsoleEvent(p, type)
    \/ \E p \in Ids, type \in ResourceTypes : RequestEvent(p, type)

Spec == Init /\ [][Next]_vars

\* SpecTools: the life cycle with the other tools called between restarts
NextTools ==
    \/ Lifecycle
    \/ \E t \in Callers : navigate_to_url(t)
    \/ \E t \in Callers :
          explore_page_dom(t, TRUE, DefaultMaxDepth, DefaultMaxChildren)
    \/ \E t \in Callers :
          explore_element_dom(t, BodySelector, TRUE, DefaultMaxDepth,
                              DefaultMaxChildren)
    \/ \E t \in Callers :
          find_elements(t, BodySelector, TRUE, DefaultMaxDepth,
                        DefaultMaxChildren, DefaultFindLimit, 0)
    \/ \E t \in Callers : get_element_text_content(t, BodySelector)
    \/ \E t \in Callers : reload_page(t)
    \/ \E t \in Callers : execute_js(t)
    \/ \E t \in Callers : click_on_element(t, BodySelector)
    \/ \E t \in Callers : fill_input(t, BodySelector)
    \/ \E t \in Callers : press_key(t, <<"a">>)
    \/ \E t \in Callers, state \in WaitStates :
          wait_for_element(t, BodySelector, state)
    \/ \E t \in Callers, limit \in CallLimits, offset \in CallOffsets,
          time_from \in OptTimes, time_to \in OptTimes :
          tool_get_console_logs(t, limit, offset, time_from, time_to)
    \/ \E t \in Callers, limit \in CallLimits, offset \in CallOffsets,
          time_from \in OptTimes, time_to \in OptTimes, resource_type \in OptTypes :
          tool_get_network_requests(t, limit, offset, time_from, time_to,
                                    resource_type)

SpecTools == Init /\ [][NextTools]_vars

\* SpecLifecycle: the life cycle alone, with one more engine call that may
\* raise than in Spec, so that a stop() and the start() behind it can both
\* fail
InitLifecycle == Constructed /\ faults = MaxFaults + 1
SpecLifecycle == InitLifecycle /\ [][Lifecycle]_vars

\* SpecConcurrent: two requests for restart_browser handled at the same
\* time.  Nothing in restart_browser, stop() or start() waits for another
\* coroutine, so the second may begin at any await of the first.
restart_browser_any(t) ==
    /\ t \in Concurrent /\ Serving /\ pc[t] = "idle"
    /\ StopResume(t, 1, _page, _context, _browser, _playwright, <<>>)
    /\ step' = NoStep("restart_browser")
    /\ UNCHANGED <<res, outside, faults>>
NextConcurrent ==
    \/ \E t \in Tasks : PlaywrightStarted(t)
    \/ \E t \in Tasks : Launched(t)
    \/ \E t \in Tasks : ContextCreated(t)
    \/ \E t \in Tasks : PageCreated(t)
    \/ \E t \in Tasks : PageClosed(t)
    \/ \E t \in Tasks : ContextClosed(t)
    \/ \E t \in Tasks : BrowserClosed(t)
    \/ \E t \in Tasks : PlaywrightStopped(t)
    \/ \E t \in Concurrent : restart_browser_any(t)
SpecConcurrent == Init /\ [][NextConcurrent]_vars

\* SpecQuery: the two queries applied to every buffer of up to MaxLen
\* entries.  datetime.now() is the wall clock, which may be set back, so
\* the timestamps of a buffer come in any order.  Entry i of either buffer
\* is drawn from the i-th pair of the same raw sequence.
Limits == (0 - 1)..MaxLen
Offsets == {0 - 1, 0, 1, MaxLen}
\* resource_type absent, empty, or one of the types: the other one is alike
QueryTypes == {NoneStr, "", "xhr"}
BoundedSeq(S, n) == UNION {[1..k -> S] : k \in 0..n}
RawEvents == [timestamp : Times, first : BOOLEAN]
ConsoleTypeOf(e) == IF e.first THEN "log" ELSE "error"
ResourceTypeOf(e) == IF e.first THEN "xhr" ELSE "image"

\* a client that start() has just set up, with the given buffers and clock
RunningSession(logs, requests, clock) ==
    /\ _playwright = 1 /\ _browser = 2 /\ _context = 3 /\ _page = 4
    /\ res = [i \in Ids |->
                CASE i = 1 -> [kind |-> "playwright", parent |-> None]
                  [] i = 2 -> [kind |-> "browser", parent |-> 1]
                  [] i = 3 -> [kind |-> "context", parent |-> 2]
                  [] i = 4 -> [kind |-> "page", parent |-> 3]
                  [] OTHER -> Free]
    /\ _console_logs = logs
    /\ _network_requests = requests
    /\ now = clock
    /\ pc = [t \in Tasks |-> IF t = Lifespan THEN "yield" ELSE "idle"]
    /\ arg = [t \in Tasks |-> None]
    /\ faults = 0
    /\ attempted = [t \in Tasks |-> <<>>]
    /\ swallowed = [t \in Tasks |-> FALSE]
    /\ returned = NoResult
    /\ step = NoStep("init")

InitQuery ==
    \E raw \in BoundedSeq(RawEvents, MaxLen) :
        /\ RunningSession(
            [i \in 1..Len(raw) |-> [type |-> ConsoleTypeOf(raw[i]),
                                    timestamp |-> raw[i].timestamp, page |-> 4]],
            [i \in 1..Len(raw) |-> [resourceType |-> ResourceTypeOf(raw[i]),
                                    timestamp |-> raw[i].timestamp, page |-> 4]],
            MaxTime)
        /\ dom = BodyOnly

\* a behaviour applies one query to the buffers it starts with
NextQuery ==
    /\ step.act = "init"
    /\ \/ \E t \in Callers, limit \in Limits, offset \in Offsets,
             time_from \in OptTimes, time_to \in OptTimes :
             tool_get_console_logs(t, limit, offset, time_from, time_to)
       \/ \E t \in Callers, limit \in Limits, offset \in Offsets,
             time_from \in OptTimes, time_to \in OptTimes,
             resource_type \in QueryTypes :
             tool_get_network_requests(t, limit, offset, time_from, time_to,
                                       resource_type)

SpecQuery == InitQuery /\ [][NextQuery]_vars

\* SpecEvents: one Running session whose page emits events while the clock
\* runs and the caller queries the buffers
InitEvents == RunningSession(<<>>, <<>>, 1) /\ dom = BodyOnly

NextEvents ==
    \/ Tick
    \/ \E p \in Ids, type \in ConsoleTypes : ConsoleEvent(p, type)
    \/ \E p \in Ids, type \in ResourceTypes : RequestEvent(p, type)
    \/ \E t \in Callers, limit \in CallLimits, offset \in CallOffsets :
          tool_get_console_logs(t, limit, offset, None, None)
    \/ \E t \in Callers, limit \in CallLimits, offset \in CallOffsets :
          tool_get_network_requests(t, limit, offset, None, None, NoneStr)

SpecEvents == InitEvents /\ [][NextEvents]_vars

\* SpecDom: explore_page_dom applied to every document of up to MaxNodes
\* nodes.  A document is either a tree of any shape whose nodes are visible
\* or not and of which at most one has gone stale, or a lone body with a
\* text of any length around the limit.
ParentsOf(n) ==
    {p \in [1..n -> 0..(n - 1)] :
        p[1] = None /\ \A i \in 2..n : p[i] \in 1..(i - 1)}
\* n characters, a blank among them
Letters(n) ==
    [i \in 1..n |-> IF i % 13 = 6 THEN " " ELSE IF i % 2 = 0 THEN "a" ELSE "b"]
Pad(n) == [i \in 1..n |-> IF i % 2 = 1 THEN " " ELSE "\t"]
TextLengths == {0, 1} \cup ((TextKept - 1)..(TextLimit + MaxOver))

TreeDocuments ==
    UNION {{[i \in 1..n |->
                [parent |-> p[i], visible |-> v[i],
                 fault |-> IF i = k THEN "stale" ELSE "none",
                 inner_text |-> Letters(1), text_content |-> Letters(1),
                 tag |-> TagOf(i), id |-> "", class |-> <<>>]] :
            p \in ParentsOf(n), v \in [1..n -> BOOLEAN], k \in 0..n} :
           n \in 1..MaxNodes}
TextDocuments ==
    {<<[parent |-> None, visible |-> v, fault |-> f,
        inner_text |-> Pad(lead) \o Letters(n) \o Pad(trail),
        text_content |-> Pad(lead) \o <<"c">> \o Letters(n) \o Pad(trail),
        tag |-> "body", id |-> "", class |-> <<>>]>> :
     v \in BOOLEAN, f \in {"none", "inner_text"},
     lead \in 0..MaxPad, trail \in 0..MaxPad, n \in TextLengths}

InitDom ==
    \E d \in TreeDocuments \cup TextDocuments :
        /\ RunningSession(<<>>, <<>>, 1)
        /\ dom = d

\* a behaviour takes one summary of the document it starts with
NextDom ==
    /\ step.act = "init"
    /\ \E t \in Callers, visible_only \in BOOLEAN,
          max_depth \in (0 - 1)..MaxDepth, max_children \in (0 - 1)..MaxChildren :
          explore_page_dom(t, visible_only, max_depth, max_children)

SpecDom == InitDom /\ [][NextDom]_vars

\* SpecPage: one tool that looks a selector up, or one key press, on every
\* document of fewer than MaxNodes nodes, `body` being visible.  A node below
\* `body` is visible or not and is plain, of class "item", or of class
\* "item" with the id "x", which several nodes may carry.
PageNodes ==
    {[parent |-> None, visible |-> v, fault |-> "none",
      inner_text |-> Letters(1), text_content |-> Letters(1),
      tag |-> "div", id |-> k[1], class |-> k[2]] :
     v \in BOOLEAN, k \in {<<"", <<>>>>, <<"", <<"item">>>>, <<"x", <<"item">>>>}}
\* the document of n nodes with the parents p and the nodes `node` below
\* `body`
PageDocument(n, p, node) ==
    [i \in 1..n |-> IF i = Body THEN BodyOnly[1]
                    ELSE [node[i] EXCEPT !.parent = p[i]]]
\* ".item", "#x", and an id that no node carries
FixedSelectors == {Selector("class", "item", <<>>), Selector("id", "x", <<>>),
                   Selector("id", "y", <<>>)}
SelectorsOf(d) == {_get_css_selector(d, n) : n \in 1..Len(d)}
FindLimits == {0 - 1, 1, MaxNodes}
FindOffsets == {0, 1}
KeyChars == {"+", "a"}
Keys == UNION {[1..n -> KeyChars] : n \in 1..MaxKey}

InitPage ==
    \E n \in 1..(MaxNodes - 1) :
        \E p \in ParentsOf(n), node \in [2..n -> PageNodes] :
            /\ RunningSession(<<>>, <<>>, 1)
            /\ dom = PageDocument(n, p, node)

NextPage ==
    /\ step.act = "init"
    /\ \/ \E t \in Callers, selector \in FixedSelectors, visible_only \in BOOLEAN,
             limit \in FindLimits, offset \in FindOffsets :
             find_elements(t, selector, visible_only, DefaultMaxDepth,
                           DefaultMaxChildren, limit, offset)
       \/ \E t \in Callers, selector \in FixedSelectors \cup SelectorsOf(dom),
             visible_only \in BOOLEAN, max_depth \in {0 - 1, 0} :
             explore_element_dom(t, selector, visible_only, max_depth,
                                 DefaultMaxChildren)
       \/ \E t \in Callers, selector \in FixedSelectors :
             get_element_text_content(t, selector)
       \/ \E t \in Callers, selector \in FixedSelectors :
             click_on_element(t, selector)
       \/ \E t \in Callers, selector \in FixedSelectors : fill_input(t, selector)
       \/ \E t \in Callers, selector \in FixedSelectors, state \in WaitStates :
             wait_for_element(t, selector, state)
       \/ \E t \in Callers, key \in Keys : press_key(t, key)

SpecPage == InitPage /\ [][NextPage]_vars

(* ---------------------------------------------------------------------- *)
(* Properties                                                              *)
(* ---------------------------------------------------------------------- *)
Stopped == _playwright = None /\ _browser = None /\ _context = None /\ _page = None
Running == _page # None /\ Live(_page)
BuffersEmpty == _console_logs = <<>> /\ _network_requests = <<>>
HandleAt(k) == <<_page, _context, _browser, _playwright>>[k]
Rank(kind) == CHOOSE k \in 1..4 : StopKinds[k] = kind
Range(s) == {s[i] : i \in 1..Len(s)}
Count(s, e) == Cardinality({i \in 1..Len(s) : s[i] = e})

\* the steps at which stop() can return
StopSteps == {"restart_browser", "shutdown", "page_close", "context_close",
              "browser_close", "playwright_stop", "page_close_raise",
              "context_close_raise", "browser_close_raise",
              "playwright_stop_raise"}
\* stop() returned at the step s that led to the control state p
StopReturnedAt(s, p) ==
    /\ s.act \in StopSteps
    /\ \/ p[Lifespan] = "done"
       \/ \E t \in Callers : p[t] = "await_playwright_start"
StopJustReturned == StopReturnedAt(step, pc)
\* the coroutine whose stop() it was
StopReturner ==
    IF pc[Lifespan] = "done" THEN Lifespan
    ELSE CHOOSE t \in Callers : pc[t] = "await_playwright_start"
\* restart_browser answered "Browser restarted" and no call of it raised
RestartSucceeded ==
    /\ step.op = "restart_browser" /\ step.status = "ok"
    /\ \A t \in Callers : ~swallowed[t]
Quiescent == AllIdle /\ pc[Lifespan] \in {"yield", "done"}

\* C1: a restart_browser whose engine calls all succeed ends with the client
\* Running, exactly one live page and both event buffers empty.
C1_RestartEndsWithOneLivePage ==
    RestartSucceeded =>
        /\ Running
        /\ Cardinality(LiveOf("page")) = 1
        /\ BuffersEmpty

\* C2: start never acquires objects while an object of an earlier session is
\* still open: all open engine objects descend from one engine handle.
C2_NoDanglingSession ==
    Cardinality({RootOf(i) : i \in {j \in Ids : Live(j)}}) <= 1

\* C3: when stop() returns, every handle that is still recorded had its
\* close call issued: a failing close never keeps a later one from running.
C3_StopAttemptsEveryRelease ==
    StopJustReturned =>
        \A k \in 1..4 :
            HandleAt(k) # None => StopKinds[k] \in Range(attempted[StopReturner])

\* C4: stop() issues its close calls in the order page, browsing context,
\* browser, engine, and issues one only when every handle that comes
\* earlier in that order has been closed.
C4_DependencyOrder ==
    \A t \in Tasks :
        /\ \A i, j \in 1..Len(attempted[t]) :
               i < j => Rank(attempted[t][i]) < Rank(attempted[t][j])
        /\ \A n \in 1..4 :
               pc[t] = StopPc[n] =>
                   /\ attempted[t] # <<>>
                   /\ attempted[t][Len(attempted[t])] = StopKinds[n]
                   /\ arg[t] = HandleAt(n)
                   /\ \A k \in 1..(n - 1) : HandleAt(k) = None
\* a stop() that went through all four close calls
C4_Witness ==
    \E t \in Tasks :
        /\ pc[t] = "await_playwright_stop"
        /\ attempted[t] = StopKinds

\* C5: whichever close call raises, stop() returns normally with the client
\* Stopped: no handle recorded and both event buffers empty.
C5_StopEndsStopped ==
    StopJustReturned => (Stopped /\ BuffersEmpty)

\* C6: the event buffers are emptied at every start and at every stop and
\* nowhere else: after a stop both are empty, and a buffer changes only by
\* an event arriving, by start() or by stop().
C6_BuffersResetAtStartAndStop ==
    [][/\ StopReturnedAt(step', pc') =>
              (_console_logs' = <<>> /\ _network_requests' = <<>>)
       /\ buffers' # buffers =>
              step'.act \in StopSteps \cup {"console", "request", "new_page"}
       /\ step'.act = "new_page" =>
              (_console_logs' = <<>> /\ _network_requests' = <<>>)]_vars

\* C7: a tool other than restart_browser that is called while the client is
\* Stopped raises; it never returns a value.
OtherTools == {"navigate_to_url", "explore_page_dom", "explore_element_dom",
               "find_elements", "get_element_text_content", "reload_page",
               "execute_js", "click_on_element", "fill_input", "press_key",
               "wait_for_element", "get_console_logs", "get_network_requests"}
C7_StoppedCallsFail ==
    (Stopped /\ step.op \in OtherTools) => step.status = "error"

\* C8: an observed console message or network request is appended once, at
\* the end of its buffer: the buffer before the event is the buffer after it
\* without its last entry, and the other buffer is left alone.
C8_AppendedOnceInArrivalOrder ==
    [][/\ step'.act = "console" =>
              /\ _console_logs' = Append(_console_logs,
                     [type |-> step'.kind, timestamp |-> step'.timestamp,
                      page |-> step'.page])
              /\ _network_requests' = _network_requests
       /\ step'.act = "request" =>
              /\ _network_requests' = Append(_network_requests,
                     [resourceType |-> step'.kind, timestamp |-> step'.timestamp,
                      page |-> step'.page])
              /\ _console_logs' = _console_logs]_vars
\* a console message arriving behind an earlier, different one
C8_Witness ==
    /\ step.act = "console"
    /\ Running
    /\ Len(_console_logs) = 2
    /\ _console_logs[1] # _console_logs[2]
    /\ _console_logs[2].type = step.kind

\* C9: between operations of a Running client, every entry of the two
\* buffers was emitted by the page the client currently records.
C9_BuffersOfCurrentSession ==
    (Quiescent /\ Serving /\ Running) =>
        /\ \A i \in 1..Len(_console_logs) : _console_logs[i].page = _page
        /\ \A i \in 1..Len(_network_requests) : _network_requests[i].page = _page

\* does entry e pass the time window?
InWindow(e, time_from, time_to) ==
    /\ time_from # None => e.timestamp >= time_from
    /\ time_to # None => e.timestamp <= time_to
\* the result r of a query over buffer b holds only entries that pass
\* Keeps, none more often than b does, and all of them when the page spans
\* the whole buffer
DrawnFrom(r, b, Keeps(_)) ==
    /\ \A i \in 1..Len(r) : Keeps(r[i]) /\ Count(r, r[i]) <= Count(b, r[i])
    /\ (step.offset = 0 /\ step.limit >= Len(b)) =>
           \A i \in 1..Len(b) :
               Keeps(b[i]) => Count(r, b[i]) = Count(b, b[i])

\* C10 as claimed: the entries a query draws its page from are exactly those
\* with timestamp >= time_from, timestamp <= time_to and resourceType =
\* resource_type, each condition applying whenever its argument is given.
C10_FiltersExactWhenGiven ==
    /\ step.op = "get_console_logs" =>
           DrawnFrom(step.list, _console_logs,
                     LAMBDA e : InWindow(e, step.time_from, step.time_to))
    /\ step.op = "get_network_requests" =>
           DrawnFrom(step.list, _network_requests,
                     LAMBDA e : /\ InWindow(e, step.time_from, step.time_to)
                                /\ step.resource_type # NoneStr =>
                                       e.resourceType = step.resource_type)

\* C10 amended: as claimed, except that resource_type applies only when it
\* is given and is not the empty string.
C10_FiltersExact ==
    /\ step.op = "get_console_logs" =>
           DrawnFrom(step.list, _console_logs,
                     LAMBDA e : InWindow(e, step.time_from, step.time_to))
    /\ step.op = "get_network_requests" =>
           DrawnFrom(step.list, _network_requests,
                     LAMBDA e : /\ InWindow(e, step.time_from, step.time_to)
                                /\ step.resource_type \notin {NoneStr, ""} =>
                                       e.resourceType = step.resource_type)
\* a request query with all three filters given that keeps some entries of
\* the buffer and drops others
C10_Witness ==
    /\ step.op = "get_network_requests"
    /\ step.time_from # None /\ step.time_to # None
    /\ step.resource_type \in ResourceTypes
    /\ step.offset = 0 /\ step.limit >= Len(_network_requests)
    /\ step.list # <<>>
    /\ \E i \in 1..Len(_network_requests) :
           _network_requests[i].timestamp < step.time_from
    /\ \E i \in 1..Len(_network_requests) :
           /\ InWindow(_network_requests[i], step.time_from, step.time_to)
           /\ _network_requests[i].resourceType # step.resource_type

\* the buffer a query step read and the entries it answered with
Queries == {"get_console_logs", "get_network_requests"}
QueriedBuffer ==
    IF step.op = "get_console_logs" THEN _console_logs ELSE _network_requests
\* is r what is left of b when some of its entries are taken out?
RECURSIVE IsSubsequence(_, _)
IsSubsequence(r, b) ==
    IF r = <<>> THEN TRUE
    ELSE IF b = <<>> THEN FALSE
    ELSE IF r[1] = b[1] THEN IsSubsequence(Tail(r), Tail(b))
    ELSE IsSubsequence(r, Tail(b))
At(s, ts) == SelectSeq(s, LAMBDA e : e.timestamp = ts)

\* C11: the entries a query returns are in descending order of timestamp,
\* and those of one timestamp are in the order in which the buffer holds
\* them, which is the order of their arrival.
C11_NewestFirstStable ==
    step.op \in Queries =>
        /\ \A i, j \in 1..Len(step.list) :
               i < j => step.list[i].timestamp >= step.list[j].timestamp
        /\ \A ts \in Times : IsSubsequence(At(step.list, ts), At(QueriedBuffer, ts))
\* a query that moved a newer entry in front of two different entries of one
\* timestamp
C11_Witness ==
    /\ step.op = "get_console_logs"
    /\ Len(step.list) = 3 /\ Len(_console_logs) = 3
    /\ _console_logs[1].timestamp = _console_logs[2].timestamp
    /\ _console_logs[1] # _console_logs[2]
    /\ _console_logs[3].timestamp > _console_logs[1].timestamp
    /\ step.list = <<_console_logs[3], _console_logs[1], _console_logs[2]>>

Max(a, b) == IF a >= b THEN a ELSE b
Min(a, b) == IF a <= b THEN a ELSE b
\* does the query step keep entry e?  A filter applies as the code applies it
Kept(e) ==
    /\ InWindow(e, step.time_from, step.time_to)
    /\ (step.op = "get_network_requests"
          /\ step.resource_type \notin {NoneStr, ""}) =>
           e.resourceType = step.resource_type
\* the number of entries of the buffer that pass the filters of the step
FilteredSize ==
    Cardinality({i \in 1..Len(QueriedBuffer) : Kept(QueriedBuffer[i])})

\* C12: a query with limit L and offset O over N filtered entries returns
\* max(0, min(L, N - O)) entries, none when O >= N, and never more than L
\* (than none, when L is negative).
C12_PageSize ==
    step.op \in Queries =>
        /\ Len(step.list) =
               Max(0, Min(step.limit, FilteredSize - step.offset))
        /\ step.offset >= FilteredSize => step.list = <<>>
        /\ Len(step.list) <= Max(0, step.limit)

\* the whole filtered, newest-first sequence: the query of the step asked
\* again for everything from the first entry on
Everything ==
    IF step.op = "get_console_logs"
    THEN get_console_logs(_console_logs, Len(_console_logs), 0,
                          step.time_from, step.time_to)
    ELSE get_network_requests(_network_requests, Len(_network_requests), 0,
                              step.time_from, step.time_to, step.resource_type)

\* C13: the page a query returns is the part of the filtered, newest-first
\* sequence at the positions offset <= i < offset + limit, counted from 0.
C13_PageIsSliceOfSorted ==
    step.op \in Queries =>
        step.list = SubSeq(Everything, Max(step.offset, 0) + 1,
                           Min(step.offset + step.limit, Len(Everything)))

\* C14: a query of either buffer, whatever its arguments, leaves both
\* buffers as they were, entries and order.
C14_QueriesReadOnly ==
    [][step'.op \in Queries =>
           (_console_logs' = _console_logs /\ _network_requests' = _network_requests)]_vars
\* a query that answered with the entries of its buffer in another order
C14_Witness ==
    /\ step.op = "get_console_logs"
    /\ Len(_console_logs) = 3 /\ Len(step.list) = 3
    /\ step.list # _console_logs

\* C15: a query answers from the buffer as it is at the call: every returned
\* entry is in it, and with no filter and a page that spans it every entry
\* of it is returned; an event that arrives later leaves the list the
\* caller was given as it is.
C15_SnapshotRead ==
    [][/\ step'.op \in Queries =>
              LET b == IF step'.op = "get_console_logs"
                       THEN _console_logs ELSE _network_requests
              IN  /\ returned'.list = step'.list
                  /\ \A i \in 1..Len(step'.list) :
                         Count(step'.list, step'.list[i]) <= Count(b, step'.list[i])
                  /\ (step'.offset = 0 /\ step'.limit >= Len(b)
                        /\ step'.time_from = None /\ step'.time_to = None
                        /\ step'.resource_type = NoneStr) =>
                         \A i \in 1..Len(b) :
                             Count(step'.list, b[i]) = Count(b, b[i])
       /\ step'.act \in {"console", "request"} => returned'.list = returned.list]_vars
\* a console message arriving after a query that returned the whole buffer
C15_Witness ==
    /\ step.act = "console"
    /\ returned.op = "get_console_logs"
    /\ returned.list # <<>>
    /\ Len(_console_logs) = Len(returned.list) + 1
    /\ \A i \in 1..Len(returned.list) : returned.list[i] = _console_logs[i]

\* explore_page_dom returned what the summarizer gave for `body`
Summarized == step.op = "explore_page_dom" /\ step.status = "ok"
\* every summary of a snapshot with its depth below the root of the snapshot
RECURSIVE Within(_, _)
Within(summary, depth) ==
    IF summary.kind # "node" THEN {}
    ELSE {[depth |-> depth, at |-> summary]}
         \cup UNION {Within(summary.children[i], depth + 1) :
                        i \in 1..Len(summary.children)}
Snapshot == Within(step.snapshot, 0)
\* the nodes the children of a summary stand for, and the element children
\* of a node of the document, both in order
ChildNodes(summary) == [i \in 1..Len(summary.children) |-> summary.children[i].node]
ElementChildren(n) ==
    SelectSeq([i \in 1..Len(dom) |-> i], LAMBDA i : dom[i].parent = n)

\* C16: no summary of a returned snapshot has more than max_children
\* children (any at all, when max_children is negative), and none lies more
\* than max_depth levels below the root.
C16_SnapshotBounded ==
    Summarized =>
        \A x \in Snapshot :
            /\ Len(x.at.children) <= Max(0, step.max_children)
            /\ x.depth <= step.max_depth

\* would the summarizer give `absent` for node n met at the given depth?
LeftOut(n, depth) ==
    depth > step.max_depth \/ (step.visible_only /\ ~dom[n].visible)
\* the element children of n that the walk goes to
Walked(n) == PySlice(ElementChildren(n), 0, step.max_children)
RECURSIVE Ancestors(_)
Ancestors(n) ==
    IF dom[n].parent = None THEN {} ELSE {dom[n].parent} \cup Ancestors(dom[n].parent)

\* C17: with visible_only set every node of a returned snapshot is visible
\* and so is each of its ancestors; and a node the walk goes to is left out
\* exactly when it lies deeper than max_depth or visible_only is set and it
\* is not visible.
C17_VisibleOnly ==
    Summarized =>
        /\ step.snapshot = Absent <=> LeftOut(Body, 0)
        /\ \A x \in Snapshot :
               /\ step.visible_only =>
                      \A n \in {x.at.node} \cup Ancestors(x.at.node) : dom[n].visible
               /\ \A i \in 1..Len(Walked(x.at.node)) :
                      LET n == Walked(x.at.node)[i]
                      IN  LeftOut(n, x.depth + 1)
                              <=> n \notin Range(ChildNodes(x.at))
\* a snapshot that leaves out an invisible node whose own child is visible
C17_Witness ==
    /\ Summarized /\ step.visible_only
    /\ step.snapshot # Absent
    /\ \E n, m \in 1..Len(dom) :
           /\ dom[m].parent = n /\ dom[m].visible /\ ~dom[n].visible
           /\ dom[n].parent = Body
           /\ n \in Range(Walked(Body))
           /\ step.max_depth >= 2
           /\ \A x \in Snapshot : x.at.node \notin {n, m}

\* C18: a node other than the root that has gone stale does not make the
\* summarization fail: a snapshot is returned and the stale node is not in it.
C18_StaleNodeOmitted ==
    (/\ step.op = "explore_page_dom"
     /\ step.act \in {"explore_page_dom", "summarize_raise"}
     /\ \/ step.status = "ok"
        \/ step.act = "summarize_raise"
     /\ dom[Body].fault # "stale") =>
        /\ step.status = "ok"
        /\ \A x \in Snapshot : dom[x.at.node].fault # "stale"

\* the text without the whitespace at its two ends
Trimmed(text) ==
    LET solid == {i \in 1..Len(text) : text[i] \notin Whitespace}
    IN  IF solid = {} THEN <<>>
        ELSE SubSeq(text, CHOOSE i \in solid : \A j \in solid : i <= j,
                          CHOOSE i \in solid : \A j \in solid : i >= j)
\* the text the summarizer reads from node n: that of inner_text(), and
\* textContent when inner_text() raises
SourceText(n) ==
    IF dom[n].fault = "inner_text" THEN dom[n].text_content ELSE dom[n].inner_text

\* C19: the text of a summary is the trimmed text of its node when that has
\* at most 80 characters, and otherwise its first 77 characters followed
\* by three dots, 80 characters in all; on either path.
C19_TextShortened ==
    Summarized =>
        \A x \in Snapshot :
            LET text == Trimmed(SourceText(x.at.node))
            IN  IF Len(text) > 80
                THEN /\ x.at.text = SubSeq(text, 1, 77) \o <<".", ".", ".">>
                     /\ Len(x.at.text) = 80
                ELSE x.at.text = text
\* a padded text of more than 80 characters shortened on the fallback path
C19_Witness ==
    /\ Summarized
    /\ step.snapshot # Absent
    /\ dom[Body].fault = "inner_text"
    /\ dom[Body].text_content[1] \in Whitespace
    /\ Len(Trimmed(dom[Body].text_content)) = 81
    /\ Len(Trimmed(dom[Body].inner_text)) = 80
    /\ Len(step.snapshot.text) = 80
    /\ step.snapshot.text[80] = "."

\* C20: the children of a summary stand, in document order, for some of the
\* first max_children element children of its node, and for each of those
\* whose own summary is not absent.
C20_ChildrenOfFirstMaxChildren ==
    Summarized =>
        \A x \in Snapshot :
            LET first == SubSeq(ElementChildren(x.at.node), 1,
                                Min(Max(step.max_children, 0),
                                    Len(ElementChildren(x.at.node))))
            IN  /\ IsSubsequence(ChildNodes(x.at), first)
                /\ \A i \in 1..Len(first) :
                       LeftOut(first[i], x.depth + 1)
                           <=> first[i] \notin Range(ChildNodes(x.at))

\* the tool `op` answered on a page whose engine calls did not fail for a
\* reason outside the document
Looked(op) == step.act = op /\ step.raised # "Error"
\* the nodes the selector of the step matches, in match order
Matched == page_query_selector_all(dom, step.selector)

\* C21: find_elements answers max(0, min(limit, N - offset)) summaries when N
\* nodes match its selector, the i-th being the summary of the match at
\* position offset + i, and an empty list when nothing matches.
C21_FindElementsPage ==
    Looked("find_elements") =>
        /\ step.status = "ok"
        /\ Len(step.list) = Max(0, Min(step.limit, Len(Matched) - step.offset))
        /\ \A i \in 1..Len(step.list) :
               /\ step.offset + i <= Len(Matched)
               /\ step.list[i].kind = "node"
               /\ step.list[i].node = Matched[step.offset + i]

InteractiveTools == {"click_on_element", "fill_input", "press_key",
                     "wait_for_element"}

\* C22: when the engine call of click_on_element, fill_input, press_key or
\* wait_for_element ends in a timeout because no element came up, the tool
\* returns False and raises nothing.
C22_TimeoutBecomesFalse ==
    step.act \in InteractiveTools /\ step.raised = "TimeoutError" =>
        /\ step.status = "ok"
        /\ step.type = "bool"
        /\ step.bool = FALSE

\* C23: on a selector that matches no element, get_element_text_content
\* returns the empty string and explore_element_dom returns an absent
\* result; neither raises.
C23_NoMatchReadsDegrade ==
    /\ Looked("get_element_text_content") /\ Matched = <<>> =>
           step.status = "ok" /\ step.text = <<>>
    /\ Looked("explore_element_dom") /\ Matched = <<>> =>
           step.status = "ok" /\ step.snapshot.kind = "absent"

\* did the first match of the selector reach the state, on a document that
\* stays as it is?  No state given means visible.
Reached(d, selector, state) ==
    LET element == page_query_selector(d, selector)
        shown == element # None /\ d[element].visible
    IN  CASE state \in {"visible", NoneStr} -> shown
          [] state = "hidden" -> ~shown
          [] state = "attached" -> element # None
          [] state = "detached" -> element = None

\* C24: what wait_for_element returns is True exactly when the element
\* reached the requested state (visible, hidden, attached or detached) in
\* time; a wait for hidden or detached that succeeded returns True.
C24_WaitTrueIffReached ==
    Looked("wait_for_element") /\ step.status = "ok" =>
        step.bool = Reached(dom, step.selector, step.kind)

\* the position of the first '+' of a key
FirstPlus(key) ==
    CHOOSE i \in 1..Len(key) : key[i] = "+" /\ \A j \in 1..(i - 1) : key[j] # "+"

\* C25: press_key sends a key without '+' as it is and with no modifier, and
\* a key with '+' as what follows its first '+', with what precedes that
\* '+' as the one modifier.
C25_SplitOnFirstPlus ==
    Looked("press_key") =>
        IF \A i \in 1..Len(step.key) : step.key[i] # "+"
        THEN step.pressed = step.key /\ step.modifiers = <<>>
        ELSE /\ step.modifiers = <<SubSeq(step.key, 1, FirstPlus(step.key) - 1)>>
             /\ step.pressed = SubSeq(step.key, FirstPlus(step.key) + 1,
                                      Len(step.key))

\* C26: the selector synthesized for a node is the same whenever it is
\* synthesized, and looked up in the document it gives that node: a node
\* whose selector explore_element_dom was called with is the node the
\* summary stands for, and the summary carries that selector again.
C26_SelectorRoundTrips ==
    Looked("explore_element_dom") /\ step.snapshot.kind = "node" =>
        /\ step.snapshot.selector = _get_css_selector(dom, step.snapshot.node)
        /\ \A n \in 1..Len(dom) :
               _get_css_selector(dom, n) = step.selector
                   => /\ step.snapshot.node = n
                      /\ step.snapshot.selector = step.selector

\* C27: the recorded handles are nested in dependency order at every step of
\* start, stop and restart, whichever engine call fails: a recorded page
\* comes with a recorded context, a recorded context with a recorded
\* browser, and a recorded browser with a recorded engine.
C27_HandlesNested ==
    /\ _page # None => _context # None
    /\ _context # None => _browser # None
    /\ _browser # None => _playwright # None
\* a stop() of restart_browser that ended at a failing context.close() after
\* the page was closed, and the start() behind it under way
C27_Witness ==
    /\ swallowed["c1"]
    /\ attempted["c1"] = <<"page", "context">>
    /\ pc["c1"] = "await_launch"
    /\ _page = None /\ _context # None /\ _browser # None /\ _playwright # None

\* the live objects of a kind are the one the client records
OnlyRecorded(kind, handle) == LiveOf(kind) = {handle}

\* C29: once two restart_browser calls that ran interleaved have both
\* answered "Browser restarted", no engine call having raised, one page,
\* one context and one browser are live, each the one the client records;
\* no browser runs unreferenced.
C29_OneSessionAfterBoth ==
    (\A t \in Concurrent : pc[t] = "done") /\ faults = MaxFaults =>
        /\ OnlyRecorded("page", _page)
        /\ OnlyRecorded("context", _context)
        /\ OnlyRecorded("browser", _browser)

\* the steps at which start() raises after the engine has started
LateStartRaises == {"launch_raise", "new_context_raise", "new_page_raise"}

\* C28: when start() fails after the engine has started, the error reaches
\* the caller and the client records no page; and a stop() that then runs to
\* its end without an error leaves all four handles unset and both buffers
\* empty.
C28_FailedStartLeavesNoPage ==
    /\ step.act \in LateStartRaises =>
           /\ _page = None
           /\ step.op = "restart_browser" => step.status = "error"
    /\ StopJustReturned /\ ~swallowed[StopReturner] => (Stopped /\ BuffersEmpty)

====
